---- MODULE Spec2Model ----
(***************************************************************************)
(* Model of the route survey app (src/app.py): the Streamlit button        *)
(* handlers that mutate st.session_state (snap, accept, clear, submit),    *)
(* the OSRM route snapper, the Route Store append (Sheets or CSV) and the  *)
(* heatmap densifier.                                                      *)
(*                                                                         *)
(* Coordinates are integers on a small grid.  geopy's ellipsoidal geodesic *)
(* is a library outside the repository; it is modelled by a metric on the  *)
(* grid (Geodesic).  GeoJSON positions are <<lon, lat>>, the snapper's     *)
(* input points are <<lat, lon>>.                                          *)
(***************************************************************************)
EXTENDS Integers, Sequences, FiniteSets, TLC

\* ------------------------------------------------------------------------
\* Bounds of the model
\* ------------------------------------------------------------------------
MaxPts == 2          \* longest drawing, in raw coordinates
MaxRoutes == 2       \* longest SessionRouteCollection
MaxStore == 2        \* most rows the Route Store holds
MaxClock == 1        \* latest reading of datetime.utcnow()
MaxAppends == 1      \* append_row calls per concurrent writer
MaxLine == 3         \* longest line handed to the densifier, in coordinates

VARIABLES
    preview_route,     \* st.session_state["preview_route"]
    preview_distance,  \* st.session_state["preview_distance"]
    my_routes,         \* st.session_state["my_routes"]
    respondent_id,     \* st.session_state["respondent_id"]
    backend,           \* "csv" when st.session_state["gspread"] has no worksheet
    db_exists,         \* os.path.exists(LOCAL_DB)
    store,             \* rows of the worksheet / the CSV file
    msg,               \* what the last script run reported to the user
    op,                \* the handler of the last script run, with what it was given
    snapped,           \* what osrm_snap_route did and returned in the last script run
    attempts,          \* rows handed to append_row in the last script run
    wpc, wrow, wdf,    \* concurrent writers inside append_row: position, row_dict, df
    completed,         \* row_dicts whose append_row call returned
    dz_line, dz_step, dz_out, dz_done,  \* densify_for_heatmap: inputs, result
    nz_path, nz_out, nz_state   \* the snap handler's coordinate loop: coords, latlon_pts

vars == <<preview_route, preview_distance, my_routes,
          respondent_id, backend, db_exists, store, msg, op, snapped,
          attempts, wpc, wrow, wdf, completed, dz_line, dz_step, dz_out, dz_done,
          nz_path, nz_out, nz_state>>

sessionVars == <<preview_route, preview_distance, my_routes>>
storeVars == <<backend, db_exists, store>>
writerVars == <<wpc, wrow, wdf, completed>>
densifyVars == <<dz_line, dz_step, dz_out, dz_done>>
normalizeVars == <<nz_path, nz_out, nz_state>>

\* ------------------------------------------------------------------------
\* Values
\* ------------------------------------------------------------------------
Abs(x) == IF x < 0 THEN 0 - x ELSE x

Max(a, b) == IF a >= b THEN a ELSE b

Range(s) == {s[i] : i \in 1..Len(s)}

RECURSIVE SeqsUpTo(_, _)
SeqsUpTo(S, n) ==
    IF n = 0 THEN {<<>>}
    ELSE LET shorter == SeqsUpTo(S, n - 1)
         IN shorter \cup {Append(s, x) : s \in {t \in shorter : Len(t) = n - 1}, x \in S}

None == [kind |-> "None"]

Feature(geom) == [kind |-> "Feature", geometry |-> geom]

LineString(coords) == [kind |-> "LineString", coordinates |-> coords]

\* geopy.distance.geodesic(a, b).meters on the grid: one grid step is 20 m
Geodesic(a, b) == 20 * (Abs(a[1] - b[1]) + Abs(a[2] - b[2]))

\* raw pairs of the draw tool: (lat, lon), (lon, lat) with |lon| > 90, a pair
\* that misses its second number
RawCoords == {<<49, 8>>, <<120, 8>>, <<7>>}

Drawings ==
    {None, [kind |-> "Polygon", coordinates |-> <<>>]}
        \cup {LineString(cs) : cs \in SeqsUpTo(RawCoords, MaxPts)}

\* GeoJSON LineStrings the routing service answers with, positions <<lon, lat>>
Geoms == { <<<<0, 0>>, <<1, 0>>>>,
           <<<<0, 0>>, <<0, 0>>, <<2, 1>>>> }

Candidate(g, has, d) == [geometry |-> LineString(g), has_distance |-> has, distance |-> d]

\* a candidate route without "distance", with distance 0, with a distance
Candidates ==
    { Candidate(<<<<0, 0>>, <<0, 0>>, <<2, 1>>>>, FALSE, 0),
      Candidate(<<<<0, 0>>, <<1, 0>>>>, TRUE, 0),
      Candidate(<<<<0, 0>>, <<1, 0>>>>, TRUE, 70) }

\* what requests.get would bring back: a failure (timeout, transport, non-2xx)
\* or the JSON body's "routes"
Responses ==
    {[ok |-> FALSE, routes |-> <<>>], [ok |-> TRUE, routes |-> <<>>]}
        \cup {[ok |-> TRUE, routes |-> <<c>>] : c \in Candidates}
        \cup {[ok |-> TRUE, routes |-> <<Candidate(<<<<0, 0>>, <<1, 0>>>>, FALSE, 0),
                                         Candidate(<<<<3, 1>>, <<0, 1>>>>, TRUE, 70)>>]}

NoResponse == [ok |-> FALSE, routes |-> <<>>]

\* uuid4 values of respondent sessions
Rids == {"r1", "r2"}

\* ------------------------------------------------------------------------
\* Coordinate heuristic of the snap handler
\* ------------------------------------------------------------------------
\* c[0] / c[1] of a pair that misses a number raises IndexError
Malformed(c) == Len(c) < 2

\* NormalizePoint with the test made on the pair's second number
NormalizePointTestsSecond(c) == IF Abs(c[2]) > 90 THEN <<c[2], c[1]>> ELSE <<c[1], c[2]>>

NormalizePoint(c) == IF Abs(c[1]) > 90 THEN <<c[2], c[1]>> ELSE <<c[1], c[2]>>

NormalizePath(coords) == [i \in 1..Len(coords) |-> NormalizePoint(coords[i])]

\* ------------------------------------------------------------------------
\* OSRM route snapping
\* ------------------------------------------------------------------------
\* sum of geodesic(a, b) over consecutive GeoJSON positions, a = (lat, lon)
RECURSIVE PathLengthUpTo(_, _)
PathLengthUpTo(coords, i) ==
    IF i < 2 THEN 0
    ELSE PathLengthUpTo(coords, i - 1)
             + Geodesic(<<coords[i - 1][2], coords[i - 1][1]>>, <<coords[i][2], coords[i][1]>>)

PathLength(coords) == PathLengthUpTo(coords, Len(coords))

\* `not dist_m`: the key is missing (None) or the number is 0
Falsy(cand) == ~cand.has_distance \/ cand.distance = 0

\* The list comprehension that builds the request path reads
\*     f"{lon:.6f},{lat:.6f}" for lat,lat in latlon_points
\* Its target binds `lat` twice and never `lon`; no enclosing scope of the
\* script assigns a global `lon`, so evaluating the first element raises
\* NameError, before the try block and before requests.get.
LonIsBound == FALSE

SnapResult(raised, geom, dist, err, calls) ==
    [raised |-> raised, geom |-> geom, dist |-> dist, err |-> err, calls |-> calls]

\* a script run that does not call osrm_snap_route
NotSnapped == SnapResult(FALSE, None, 0, "", 0)

osrm_snap_route(latlon_points, resp) ==
    IF Len(latlon_points) < 2
    THEN SnapResult(FALSE, None, 0, "Need at least start & end.", 0)
    ELSE IF ~LonIsBound
    THEN SnapResult(TRUE, None, 0, "NameError", 0)
    ELSE IF ~resp.ok
    THEN SnapResult(FALSE, None, 0, "OSRM error", 1)
    ELSE IF Len(resp.routes) = 0
    THEN SnapResult(FALSE, None, 0, "No route found.", 1)
    ELSE LET geom == resp.routes[1].geometry
             dist_m == IF Falsy(resp.routes[1])
                       THEN PathLength(geom.coordinates)
                       ELSE resp.routes[1].distance
         IN SnapResult(FALSE, geom, dist_m, "", 1)

\* ------------------------------------------------------------------------
\* Button handlers
\* ------------------------------------------------------------------------
\* the inputs of a handler run: the number of drawn points and the routing
\* service's answer (snap, when the snapper is called), the consent checkbox
\* and the failing append_row call (submit)
SnapOp(called, npts, resp) ==
    [name |-> "snap", called |-> called, npts |-> npts, resp |-> resp,
     consent |-> FALSE, failAt |-> 0]

SubmitOp(consent, failAt) ==
    [name |-> "submit", called |-> FALSE, npts |-> 0, resp |-> NoResponse,
     consent |-> consent, failAt |-> failAt]

ButtonOp(name) ==
    [name |-> name, called |-> FALSE, npts |-> 0, resp |-> NoResponse,
     consent |-> FALSE, failAt |-> 0]

Report(text, o) ==
    /\ msg' = text
    /\ op' = o

\* SnapFailed as a handler that stores what the snapper returned on failure
SnapFailedStoresResult(text, o) ==
    /\ Report(text, o)
    /\ preview_route' = None
    /\ preview_distance' = 0

\* a snap that does not succeed: st.warning / st.error, nothing assigned
SnapFailed(text, o) ==
    /\ Report(text, o)
    /\ UNCHANGED <<preview_route, preview_distance>>

\* "Snap last drawing to streets"; last_drawn is what the map widget returned
\* in this run, resp is what the routing service has to say to the snapper's
\* request
Snap(last_drawn, resp) ==
    /\ UNCHANGED <<my_routes, respondent_id, storeVars, writerVars, densifyVars, normalizeVars>>
    /\ attempts' = <<>>
    /\ IF last_drawn = None
       THEN /\ SnapFailed("Draw a polyline first (use the pencil icon on the map).",
                          SnapOp(FALSE, 0, NoResponse))
            /\ snapped' = NotSnapped
       ELSE IF last_drawn.kind # "LineString"
       THEN /\ SnapFailed("Please draw a LineString (polyline).", SnapOp(FALSE, 0, NoResponse))
            /\ snapped' = NotSnapped
       ELSE IF \E i \in 1..Len(last_drawn.coordinates) : Malformed(last_drawn.coordinates[i])
       THEN /\ SnapFailed("Could not parse drawing",
                          SnapOp(FALSE, Len(last_drawn.coordinates), NoResponse))
            /\ snapped' = NotSnapped
       ELSE LET latlon_pts == NormalizePath(last_drawn.coordinates)
                r == osrm_snap_route(latlon_pts, resp)
                o == SnapOp(TRUE, Len(latlon_pts), resp)
            IN /\ snapped' = r
               /\ IF r.raised
                  THEN SnapFailed("Could not parse drawing", o)
                  ELSE IF r.err # ""
                  THEN SnapFailed(r.err, o)
                  ELSE /\ preview_route' = Feature(r.geom)
                       /\ preview_distance' = r.dist
                       /\ Report("Snapped distance", o)

\* Accept as a handler that inserts the preview at the front
AcceptPrepends ==
    /\ UNCHANGED <<respondent_id, storeVars, writerVars, densifyVars, normalizeVars>>
    /\ snapped' = NotSnapped
    /\ attempts' = <<>>
    /\ IF preview_route = None
       THEN /\ Report("Nothing to add", ButtonOp("accept"))
            /\ UNCHANGED sessionVars
       ELSE /\ Len(my_routes) < MaxRoutes
            /\ my_routes' = <<preview_route>> \o my_routes
            /\ preview_route' = None
            /\ preview_distance' = 0
            /\ Report("Added.", ButtonOp("accept"))

\* "Add snapped to my routes"
Accept ==
    /\ UNCHANGED <<respondent_id, storeVars, writerVars, densifyVars, normalizeVars>>
    /\ snapped' = NotSnapped
    /\ attempts' = <<>>
    /\ IF preview_route = None
       THEN /\ Report("Nothing to add", ButtonOp("accept"))
            /\ UNCHANGED sessionVars
       ELSE /\ Len(my_routes) < MaxRoutes
            /\ my_routes' = Append(my_routes, preview_route)
            /\ preview_route' = None
            /\ preview_distance' = 0
            /\ Report("Added.", ButtonOp("accept"))

\* "Clear my routes"
ClearAll ==
    /\ my_routes' = <<>>
    /\ preview_route' = None
    /\ preview_distance' = 0
    /\ Report("", ButtonOp("clear_all"))
    /\ UNCHANGED <<respondent_id, storeVars, writerVars, densifyVars, normalizeVars>>
    /\ snapped' = NotSnapped
    /\ attempts' = <<>>

\* "Clear preview"
ClearPreview ==
    /\ preview_route' = None
    /\ preview_distance' = 0
    /\ Report("", ButtonOp("clear_preview"))
    /\ UNCHANGED <<my_routes, respondent_id, storeVars, writerVars, densifyVars, normalizeVars>>
    /\ snapped' = NotSnapped
    /\ attempts' = <<>>

\* ------------------------------------------------------------------------
\* Route Store
\* ------------------------------------------------------------------------
\* append_row run to completion with no other writer in between: the CSV
\* branch reads the file when it exists, concatenates and writes it back; the
\* Sheets branch appends one worksheet row
append_row(st, row_dict) ==
    IF st.backend = "csv"
    THEN LET df0 == IF st.db_exists THEN st.store ELSE <<>>
         IN [st EXCEPT !.store = df0 \o <<row_dict>>, !.db_exists = TRUE]
    ELSE [st EXCEPT !.store = Append(st.store, row_dict)]

\* RouteRow with enumerate()'s position as the index
RouteRowZeroBased(i, feat, rid, timestamp) ==
    [timestamp_utc |-> timestamp,
     respondent_id |-> rid,
     route_index |-> i,
     route_geojson |-> feat.geometry]

\* the row one submitted route becomes; i is enumerate()'s 0-based position
RouteRow(i, feat, rid, timestamp) ==
    [timestamp_utc |-> timestamp,
     respondent_id |-> rid,
     route_index |-> i + 1,
     route_geojson |-> feat.geometry]

\* OnStoreError as a loop that swallows the exception and stops
OnStoreErrorSwallowed(acc, tried) == [acc EXCEPT !.attempts = tried]

\* append_row raised inside the loop: nothing catches it, the loop is left
\* and the script run ends with the exception
OnStoreError(acc, tried) == [acc EXCEPT !.attempts = tried, !.raised = TRUE]

\* the submit loop from position i (0-based) on; failAt numbers the append_row
\* call that raises (0: none does)
RECURSIVE SubmitLoop(_, _, _, _, _, _)
SubmitLoop(i, routes, rid, timestamp, failAt, acc) ==
    IF i >= Len(routes) THEN acc
    ELSE LET feat == routes[i + 1]
             coords == feat.geometry.coordinates
         IN IF Len(coords) = 0
            THEN SubmitLoop(i + 1, routes, rid, timestamp, failAt, acc)
            ELSE LET row == RouteRow(i, feat, rid, timestamp)
                     tried == Append(acc.attempts, row)
                 IN IF Len(tried) = failAt
                    THEN OnStoreError(acc, tried)
                    ELSE SubmitLoop(i + 1, routes, rid, timestamp, failAt,
                                    [acc EXCEPT !.attempts = tried,
                                                !.st = append_row(acc.st, row)])

\* SubmitCheck with the two checks in the other order
SubmitCheckEmptyFirst(consent, routes) ==
    IF Len(routes) = 0 THEN "Add at least one route."
    ELSE IF ~consent THEN "You must consent before submitting."
    ELSE ""

\* the checks submit makes before it writes anything
SubmitCheck(consent, routes) ==
    IF ~consent THEN "You must consent before submitting."
    ELSE IF Len(routes) = 0 THEN "Add at least one route."
    ELSE ""

\* "Submit all my routes"; consent is the checkbox of this run, utcnow what
\* datetime.utcnow() reads
Submit(consent, utcnow, failAt) ==
    /\ UNCHANGED <<sessionVars, respondent_id, writerVars, densifyVars, normalizeVars>>
    /\ snapped' = NotSnapped
    /\ IF SubmitCheck(consent, my_routes) # ""
       THEN /\ failAt = 0 /\ utcnow = 0
            /\ Report(SubmitCheck(consent, my_routes), SubmitOp(consent, 0))
            /\ attempts' = <<>>
            /\ UNCHANGED storeVars
       ELSE /\ failAt <= Len(my_routes)
            /\ Len(store) + Len(my_routes) <= MaxStore
            /\ LET rid == respondent_id
                   timestamp == utcnow
                   done == SubmitLoop(0, my_routes, rid, timestamp, failAt,
                               [st |-> [backend |-> backend, db_exists |-> db_exists,
                                        store |-> store],
                                attempts |-> <<>>, raised |-> FALSE])
               IN /\ store' = done.st.store
                  /\ db_exists' = done.st.db_exists
                  /\ backend' = backend
                  /\ attempts' = done.attempts
                  /\ Report(IF done.raised THEN "StoreWriteError"
                            ELSE "Thanks! Your routes have been sub",
                            SubmitOp(consent, failAt))

\* ------------------------------------------------------------------------
\* append_row under concurrent writers (one per respondent session)
\* ------------------------------------------------------------------------
Writers == Rids

WriterRows == {[respondent_id |-> w, route_index |-> k] : w \in Writers, k \in 1..2}

appVars == <<sessionVars, respondent_id, msg, op, snapped, attempts, densifyVars, normalizeVars>>

\* a session's submit loop calls append_row(row_dict)
AppendCall(w, row_dict) ==
    /\ wpc[w] = "idle"
    /\ row_dict.respondent_id = w
    /\ Cardinality({r \in completed : r.respondent_id = w}) < MaxAppends
    /\ Len(store) < MaxStore
    /\ row_dict \notin completed
    /\ wpc' = [wpc EXCEPT ![w] = "called"]
    /\ wrow' = [wrow EXCEPT ![w] = row_dict]
    /\ wdf' = [wdf EXCEPT ![w] = <<row_dict>>]
    /\ UNCHANGED <<completed, storeVars, appVars>>

\* CSV: os.path.exists(LOCAL_DB)
CsvExists(w) ==
    /\ wpc[w] = "called"
    /\ backend = "csv"
    /\ wpc' = [wpc EXCEPT ![w] = IF db_exists THEN "read" ELSE "write"]
    /\ UNCHANGED <<wrow, wdf, completed, storeVars, appVars>>

\* CSV: df0 = pd.read_csv(LOCAL_DB); df = pd.concat([df0, df])
CsvRead(w) ==
    /\ wpc[w] = "read"
    /\ wdf' = [wdf EXCEPT ![w] = store \o <<wrow[w]>>]
    /\ wpc' = [wpc EXCEPT ![w] = "write"]
    /\ UNCHANGED <<wrow, completed, storeVars, appVars>>

\* CSV: df.to_csv(LOCAL_DB) replaces the file by df
CsvWrite(w) ==
    /\ wpc[w] = "write"
    /\ store' = wdf[w]
    /\ db_exists' = TRUE
    /\ wpc' = [wpc EXCEPT ![w] = "idle"]
    /\ completed' = completed \cup {wrow[w]}
    /\ UNCHANGED <<wrow, wdf, backend, appVars>>

\* Sheets: ws.append_row(ordered)
SheetsAppend(w) ==
    /\ wpc[w] = "called"
    /\ backend = "sheets"
    /\ store' = Append(store, wrow[w])
    /\ wpc' = [wpc EXCEPT ![w] = "idle"]
    /\ completed' = completed \cup {wrow[w]}
    /\ UNCHANGED <<wrow, wdf, backend, db_exists, appVars>>

\* ------------------------------------------------------------------------
\* Heatmap densifier
\* ------------------------------------------------------------------------
\* the k-th of n samples of segment a -> b, a = (lat, lon): the point
\* (lat_n / den, lon_n / den) = a + (b - a) * (k / n)
Sample(a, b, k, n) ==
    [lat_n |-> a[1] * n + (b[1] - a[1]) * k,
     lon_n |-> a[2] * n + (b[2] - a[2]) * k,
     den |-> n]

\* SegmentSamples without the clamp of n to 1
SegmentSamplesNoClamp(a, b, step) ==
    LET seg_m == Geodesic(a, b)
        n == seg_m \div step
    IN [j \in 1..n |-> Sample(a, b, j - 1, n)]

SegmentSamples(a, b, step) ==
    LET seg_m == Geodesic(a, b)
        n == Max(1, seg_m \div step)
    IN [j \in 1..n |-> Sample(a, b, j - 1, n)]

\* pts after the loop has handled coords[1..i] (GeoJSON positions <<lon, lat>>)
RECURSIVE DensifyUpTo(_, _, _)
DensifyUpTo(coords, step, i) ==
    IF i < 2 THEN <<>>
    ELSE DensifyUpTo(coords, step, i - 1)
             \o SegmentSamples(<<coords[i - 1][2], coords[i - 1][1]>>,
                               <<coords[i][2], coords[i][1]>>, step)

densify_for_heatmap(coords, step) == DensifyUpTo(coords, step, Len(coords))

LineCoords == {<<0, 0>>, <<1, 0>>, <<5, 0>>, <<5, 2>>}

\* step=30 is the default, make_overview_heatmap passes step=40
Steps == {30, 40}

Densify ==
    /\ ~dz_done
    /\ dz_out' = densify_for_heatmap(dz_line, dz_step)
    /\ dz_done' = TRUE
    /\ UNCHANGED <<dz_line, dz_step, sessionVars, respondent_id, storeVars, msg, op,
                   snapped, attempts, writerVars, normalizeVars>>

\* ------------------------------------------------------------------------
\* Specifications
\* ------------------------------------------------------------------------
InitCommon ==
    /\ respondent_id \in Rids
    /\ backend \in {"csv", "sheets"}
    /\ db_exists = FALSE
    /\ store = <<>>
    /\ msg = ""
    /\ op = ButtonOp("none")
    /\ snapped = NotSnapped
    /\ attempts = <<>>
    /\ wpc = [w \in Writers |-> "idle"]
    /\ wrow = [w \in Writers |-> [respondent_id |-> w, route_index |-> 0]]
    /\ wdf = [w \in Writers |-> <<>>]
    /\ completed = {}

InitNoDensify ==
    /\ dz_line = <<>>
    /\ dz_step = 30
    /\ dz_out = <<>>
    /\ dz_done = TRUE

InitEmptySession ==
    /\ preview_route = None
    /\ preview_distance = 0
    /\ my_routes = <<>>

InitNoNormalize ==
    /\ nz_path = <<>>
    /\ nz_out = <<>>
    /\ nz_state = "idle"

\* the script's first run: a fresh session
Init == InitCommon /\ InitNoDensify /\ InitNoNormalize /\ InitEmptySession

Next ==
    \/ \E last_drawn \in Drawings, resp \in Responses : Snap(last_drawn, resp)
    \/ Accept
    \/ ClearAll
    \/ ClearPreview
    \/ \E consent \in BOOLEAN, utcnow \in 0..MaxClock, failAt \in 0..MaxRoutes :
           Submit(consent, utcnow, failAt)

Spec == Init /\ [][Next]_vars

\* The handlers over every session state of the shape they read: a preview
\* that is None or a Feature with its distance, and a list of Features.
\* Spec itself never leaves the empty session, because osrm_snap_route raises
\* for every drawing of two or more points (LonIsBound); what the handlers do
\* with a preview or with collected routes is checked from these states.  The
\* handlers of the working route never touch the store and submit never
\* touches the session, so the two groups are run apart.
Previews ==
    {<<None, 0>>}
        \cup {<<Feature(c.geometry), IF Falsy(c) THEN PathLength(c.geometry.coordinates)
                                                     ELSE c.distance>> : c \in Candidates}

SessionInit ==
    /\ InitCommon
    /\ InitNoDensify
    /\ InitNoNormalize
    /\ \E p \in Previews : preview_route = p[1] /\ preview_distance = p[2]
    /\ my_routes \in SeqsUpTo({Feature(LineString(g)) : g \in Geoms}, MaxRoutes)

SessionNext ==
    \/ \E last_drawn \in Drawings, resp \in Responses : Snap(last_drawn, resp)
    \/ Accept
    \/ ClearAll
    \/ ClearPreview

SessionSpec == SessionInit /\ [][SessionNext]_vars

SubmitNext ==
    \E consent \in BOOLEAN, utcnow \in 0..MaxClock, failAt \in 0..MaxRoutes :
        Submit(consent, utcnow, failAt)

SubmitSpec == SessionInit /\ [][SubmitNext]_vars

\* append_row called by two sessions at once
StoreNext ==
    \E w \in Writers :
        \/ \E row_dict \in WriterRows : AppendCall(w, row_dict)
        \/ CsvExists(w)
        \/ CsvRead(w)
        \/ CsvWrite(w)
        \/ SheetsAppend(w)

StoreSpec == Init /\ [][StoreNext]_vars

\* densify_for_heatmap over bounded lines
DensifyInit ==
    /\ InitCommon
    /\ InitEmptySession
    /\ InitNoNormalize
    /\ dz_line \in SeqsUpTo(LineCoords, MaxLine)
    /\ dz_step \in Steps
    /\ dz_out = <<>>
    /\ dz_done = FALSE

DensifyNext == Densify

DensifySpec == DensifyInit /\ [][DensifyNext]_vars

\* raw pairs (x, y) around the |x| = 90 threshold, with y on either side of
\* it, and a pair that misses its second number
NormalizeInputs ==
    {<<x, y>> : x \in {0 - 120, 0 - 91, 0 - 90, 49, 90, 91}, y \in {8, 120}} \cup {<<7>>}

\* the loop that fills latlon_pts from the drawing's coordinates; a pair that
\* misses a number raises IndexError, which ends the loop
Normalize ==
    /\ nz_state = "ready"
    /\ IF \E i \in 1..Len(nz_path) : Malformed(nz_path[i])
       THEN /\ nz_out' = <<>>
            /\ nz_state' = "IndexError"
       ELSE /\ nz_out' = NormalizePath(nz_path)
            /\ nz_state' = "done"
    /\ UNCHANGED <<nz_path, sessionVars, respondent_id, storeVars, msg, op, snapped,
                   attempts, writerVars, densifyVars>>

\* the coordinate loop over bounded drawings
NormalizeInit ==
    /\ InitCommon
    /\ InitEmptySession
    /\ InitNoDensify
    /\ nz_path \in SeqsUpTo(NormalizeInputs, MaxPts)
    /\ nz_out = <<>>
    /\ nz_state = "ready"

NormalizeNext == Normalize

NormalizeSpec == NormalizeInit /\ [][NormalizeNext]_vars

\* ------------------------------------------------------------------------
\* Properties
\* ------------------------------------------------------------------------
SnapSucceeded == "Snapped distance"

SnapErrors ==
    {"Draw a polyline first (use the pencil icon on the map).",
     "Please draw a LineString (polyline).",
     "Could not parse drawing",
     "Need at least start & end.", "No route found.", "OSRM error"}

Thanks == "Thanks! Your routes have been sub"

\* the distance the snapper is to return for a candidate route
ExpectedDistance(cand) ==
    IF ~cand.has_distance \/ cand.distance = 0
    THEN LET cs == cand.geometry.coordinates
             Leg(i) == Geodesic(<<cs[i][2], cs[i][1]>>, <<cs[i + 1][2], cs[i + 1][1]>>)
             Sum[i \in 0..Len(cs)] == IF i = 0 THEN 0 ELSE Sum[i - 1] + Leg(i)
         IN IF Len(cs) < 2 THEN 0 ELSE Sum[Len(cs) - 1]
    ELSE cand.distance

\* the last run snapped a drawing of at least 2 points and the routing
\* service has at least one candidate route for it
SnapAnswered ==
    /\ op.name = "snap"
    /\ op.called
    /\ op.npts >= 2
    /\ op.resp.ok
    /\ Len(op.resp.routes) >= 1

\* C1: a snap of a drawing with at least 2 points that the routing service
\* answers with at least one candidate ends in Previewed: the preview is the
\* first candidate's geometry with its distance, it is the only preview, and
\* the accepted collection is what it was.
C1_SnapInstallsPreview ==
    SnapAnswered =>
        /\ msg = SnapSucceeded
        /\ preview_route = Feature(op.resp.routes[1].geometry)
        /\ preview_distance = ExpectedDistance(op.resp.routes[1])

\* C2: accept changes the session only when a preview is present: with a
\* preview it appends exactly that preview after the earlier entries, which
\* keep their order, and leaves no preview; without one it reports that there
\* is nothing to add and leaves collection and preview as they were.
C2_AcceptAppendsPreview ==
    [][op'.name = "accept" =>
          IF preview_route = None
          THEN /\ msg' = "Nothing to add"
               /\ my_routes' = my_routes
               /\ preview_route' = preview_route
               /\ preview_distance' = preview_distance
          ELSE /\ msg' = "Added."
               /\ Len(my_routes') = Len(my_routes) + 1
               /\ \A i \in 1..Len(my_routes) : my_routes'[i] = my_routes[i]
               /\ my_routes'[Len(my_routes')] = preview_route
               /\ preview_route' = None]_vars

C2_AppendedAfterEarlier ==
    /\ op.name = "accept"
    /\ msg = "Added."
    /\ Len(my_routes) = 2
    /\ my_routes[1] # my_routes[2]
    /\ preview_route = None

\* C3: submit writes nothing to the Route Store unless consent is given and
\* the collection is non-empty: without consent it reports that consent is
\* required, whatever the collection's size; with consent and an empty
\* collection it reports that a route is needed.
C3_SubmitNeedsConsentAndRoutes ==
    [][(op'.name = "submit" /\ (~op'.consent \/ Len(my_routes) = 0)) =>
          /\ store' = store
          /\ db_exists' = db_exists
          /\ attempts' = <<>>
          /\ msg' = IF ~op'.consent THEN "You must consent before submitting."
                    ELSE "Add at least one route."]_vars

C3_RefusedWithRoutes ==
    /\ op.name = "submit"
    /\ ~op.consent
    /\ Len(my_routes) = 2
    /\ msg = "You must consent before submitting."
    /\ attempts = <<>>

\* C4: a successful submit of n collected routes hands n rows to append_row,
\* one per route in collection order; the k-th row has route_index k and the
\* k-th route's geometry, all rows have one timestamp and the session's
\* respondent id, and they are the last n rows of the store in that order.
C4_SubmitAppendsInOrder ==
    (op.name = "submit" /\ msg = Thanks) =>
        LET n == Len(my_routes)
        IN /\ n >= 1
           /\ Len(attempts) = n
           /\ \A k \in 1..n :
                  /\ attempts[k].route_index = k
                  /\ attempts[k].route_geojson = my_routes[k].geometry
                  /\ attempts[k].timestamp_utc = attempts[1].timestamp_utc
                  /\ attempts[k].respondent_id = respondent_id
           /\ Len(store) >= n
           /\ SubSeq(store, Len(store) - n + 1, Len(store)) = attempts

C4_TwoRoutesSubmitted ==
    /\ op.name = "submit"
    /\ msg = Thanks
    /\ Len(my_routes) = 2
    /\ Len(store) = 2

\* C5: when append_row fails on the k-th route of a submission, the k-1 rows
\* appended before it stay in the store, routes k+1..n are not handed to
\* append_row, and the run ends with the store's error, not with success.
C5_PartialWritesKept ==
    [][(op'.name = "submit" /\ op'.failAt >= 1) =>
          LET k == op'.failAt
          IN /\ msg' = "StoreWriteError"
             /\ Len(attempts') = k
             /\ \A j \in 1..k :
                    /\ attempts'[j].route_index = j
                    /\ attempts'[j].route_geojson = my_routes[j].geometry
             /\ store' = store \o SubSeq(attempts', 1, k - 1)]_vars

C5_FailedOnSecondRoute ==
    /\ op.name = "submit"
    /\ op.failAt = 2
    /\ msg = "StoreWriteError"
    /\ Len(my_routes) = 2
    /\ Len(store) = 1
    /\ store[1].route_index = 1

\* C6: under concurrent writers every row whose append_row call has returned
\* is in the store.
C6_NoAppendLost ==
    \A row_dict \in completed : \E i \in 1..Len(store) : store[i] = row_dict

\* C7: a snap that fails (no usable drawing, fewer than 2 points, a routing
\* service that fails or has no candidate route) reports an error and leaves
\* the preview, its distance and the collection exactly as they were.
C7_FailedSnapKeepsState ==
    [][op'.name = "snap" =>
          /\ (~op'.called \/ op'.npts < 2 \/ ~op'.resp.ok \/ Len(op'.resp.routes) = 0)
                 => msg' \in SnapErrors
          /\ msg' \in SnapErrors \cup {SnapSucceeded}
          /\ msg' \in SnapErrors =>
                 /\ preview_route' = preview_route
                 /\ preview_distance' = preview_distance
                 /\ my_routes' = my_routes]_vars

C7_FailedWithPreviewPending ==
    /\ op.name = "snap"
    /\ op.called
    /\ op.npts < 2
    /\ msg = "Need at least start & end."
    /\ preview_route # None
    /\ preview_distance > 0
    /\ my_routes # <<>>

\* C8: one invocation of the route snapper issues no request when it is given
\* fewer than 2 points (it returns the insufficient-points error) and exactly
\* one request when it is given 2 or more.
C8_RequestsPerInvocation ==
    (op.name = "snap" /\ op.called) =>
        IF op.npts < 2
        THEN snapped.calls = 0 /\ snapped.err = "Need at least start & end."
        ELSE snapped.calls = 1

\* C9: given 2 or more points and an answer with at least one candidate route,
\* the snapper returns the first candidate's reported distance when that is
\* present and not 0, and otherwise the sum of the geodesic distances of all
\* consecutive pairs of coordinates of the returned geometry.
C9_ReturnedDistance ==
    SnapAnswered =>
        /\ ~snapped.raised
        /\ snapped.err = ""
        /\ snapped.geom = op.resp.routes[1].geometry
        /\ snapped.dist = ExpectedDistance(op.resp.routes[1])

\* floor(L / step) for a positive step
FloorOfQuotient(L, step) == CHOOSE q \in 0..L : q * step <= L /\ L < (q + 1) * step

\* the i-th segment of the densified line, from position i to i + 1
SegmentStart(i) == <<dz_line[i][2], dz_line[i][1]>>

SegmentEnd(i) == <<dz_line[i + 1][2], dz_line[i + 1][1]>>

\* n = max(1, floor(L / step)) of the i-th segment
SegmentCount(i) ==
    LET q == FloorOfQuotient(Geodesic(SegmentStart(i), SegmentEnd(i)), dz_step)
    IN IF q < 1 THEN 1 ELSE q

\* samples emitted for the segments before the i-th
SamplesBefore[i \in 1..(MaxLine + 1)] ==
    IF i = 1 THEN 0 ELSE SamplesBefore[i - 1] + SegmentCount(i - 1)

\* sample p is the point a + (b - a) * k / n
IsPointAt(p, a, b, k, n) ==
    /\ p.den > 0
    /\ p.lat_n * n = (a[1] * n + (b[1] - a[1]) * k) * p.den
    /\ p.lon_n * n = (a[2] * n + (b[2] - a[2]) * k) * p.den

\* sample p is the (lat, lon) point c
IsPoint(p, c) == IsPointAt(p, c, c, 0, 1)

\* the count and order part of C10
DensifyCountsAndOrder ==
    LET m == Len(dz_line)
    IN /\ Len(dz_out) = IF m < 2 THEN 0 ELSE SamplesBefore[m]
       /\ \A i \in 1..(m - 1) :
              \A k \in 0..(SegmentCount(i) - 1) :
                  IsPointAt(dz_out[SamplesBefore[i] + k + 1],
                            SegmentStart(i), SegmentEnd(i), k, SegmentCount(i))

\* C10 (as stated): densify emits n = max(1, floor(L / step)) samples per
\* segment, in segment order then sample order, the output's length is the
\* sum of n over the segments, and the last coordinate of the line is never
\* emitted as a sample.
C10_LastCoordinateNeverEmitted ==
    (dz_done /\ Len(dz_line) >= 2) =>
        /\ DensifyCountsAndOrder
        /\ \A j \in 1..Len(dz_out) : ~IsPoint(dz_out[j], SegmentEnd(Len(dz_line) - 1))

\* C10 (amended): densify emits n = max(1, floor(L / step)) samples per
\* segment, in segment order then sample order, the output's length is the
\* sum of n over the segments, and no segment of non-zero length emits its
\* own end point: the last coordinate is not sampled as the end (t = 1) of
\* the last segment, but a zero-length last segment emits it as its start.
C10_DensifyCountsAndOrder ==
    dz_done =>
        /\ DensifyCountsAndOrder
        /\ \A i \in 1..(Len(dz_line) - 1) :
               SegmentStart(i) # SegmentEnd(i) =>
                   \A k \in 1..SegmentCount(i) :
                       ~IsPoint(dz_out[SamplesBefore[i] + k], SegmentEnd(i))

\* a zero-length segment, then a segment of 100 m sampled 3 times at step 30
C10_ShortAndLongSegments ==
    /\ dz_done
    /\ dz_step = 30
    /\ dz_line = <<<<0, 0>>, <<0, 0>>, <<5, 0>>>>
    /\ Len(dz_out) = 4

\* C11: the normalizer turns each raw pair (x, y) into (y, x) exactly when
\* |x| > 90 and into (x, y) otherwise, whatever y is, and a path becomes one
\* point per raw pair, in the order of the pairs.
C11_NormalizerSwapsOnFirst ==
    nz_state = "done" =>
        /\ Len(nz_out) = Len(nz_path)
        /\ \A i \in 1..Len(nz_path) :
               LET x == nz_path[i][1]
                   y == nz_path[i][2]
               IN IF x > 90 \/ x < 0 - 90
                  THEN nz_out[i] = <<y, x>>
                  ELSE nz_out[i] = <<x, y>>

\* a pair at the threshold with y beyond it is kept, the next pair is swapped
C11_KeptThenSwapped ==
    /\ nz_state = "done"
    /\ nz_path = <<<<90, 120>>, <<0 - 91, 8>>>>
    /\ nz_out = <<<<90, 120>>, <<8, 0 - 91>>>>

====
